---- MODULE Spec2Model ----
(***************************************************************************)
(* A model of dns_packet/dns_struct.py (class dns_struct): the bit-field   *)
(* extraction of the header flag bytes, the name decoder decode_labels,    *)
(* decode_question_section, and the message decoder unpack_dns with its    *)
(* resource-record loop _unpack_dns_rr.                                    *)
(*                                                                         *)
(* A Python byte string is a sequence of integers 0..255, a text string a  *)
(* sequence of one-character strings.  Python offsets are 0-based; the     *)
(* byte at Python offset o of message is message[o + 1].  An exception is  *)
(* never caught in this file, so a raise ends the entry call: result       *)
(* becomes [kind |-> "raise", exc |-> <exception type>].                   *)
(***************************************************************************)
EXTENDS Integers, Sequences, FiniteSets, TLC

VARIABLES
    message,    \* the byte buffer handed to the entry call (never assigned)
    entry,      \* the method called from outside
    args,       \* the other arguments of the entry call, as passed
    pc,         \* position of the running call
    frames,     \* activations of decode_labels, innermost last
    result,     \* outcome of the entry call: none / return / raise
    qs,         \* locals of decode_question_section
    dns,        \* locals of unpack_dns
    rr,         \* locals of _unpack_dns_rr and what it printed
    codec       \* locals of _unpack_dns_upper_codes / _unpack_dns_lower_codes

vars == <<message, entry, args, pc, frames, result, qs, dns, rr, codec>>

(***************************************************************************)
(* Bounds of the model.                                                    *)
(***************************************************************************)
\* longest byte buffer handed to decode_labels directly
MaxLen == 5
\* the interpreter's limit on nested calls (sys.getrecursionlimit()), scaled
RecursionLimit == 8

\* byte values the enumerated buffers are made of: end of name, label
\* lengths 1 and 2 (and pointer targets 0..2), the reserved tags 01 and 10,
\* and the pointer tag 11
BufferBytes == {0, 1, 2, 64, 128, 192}

(***************************************************************************)
(* Integer helpers.                                                        *)
(***************************************************************************)
RECURSIVE Pow2(_)
Pow2(n) == IF n = 0 THEN 1 ELSE 2 * Pow2(n - 1)

\* Python's a & b on non-negative integers
RECURSIVE BitAnd(_, _)
BitAnd(a, b) ==
    IF a = 0 \/ b = 0 THEN 0
    ELSE (a % 2) * (b % 2) + 2 * BitAnd(a \div 2, b \div 2)

\* Python's s[i:j] for 0 <= i, 0 <= j (both clamped to len(s))
Slice(s, i, j) ==
    LET hi == IF j > Len(s) THEN Len(s) ELSE j
    IN  IF i >= hi THEN <<>> ELSE SubSeq(s, i + 1, hi)

None == [kind |-> "none"]
Return(v) == [kind |-> "return", value |-> v]
Raise(e) == [kind |-> "raise", exc |-> e]

(***************************************************************************)
(* struct.unpack_from(fmt, buffer, offset): it raises struct.error unless  *)
(* len(buffer) - offset >= struct.calcsize(fmt).                           *)
(***************************************************************************)
CanUnpack(buffer, offset, size) == Len(buffer) - offset >= size

\* "!B": one unsigned byte
UnpackB(buffer, offset) == buffer[offset + 1]

\* "<H" in place of "!H": little-endian
UnpackH_little_endian(buffer, offset) ==
    buffer[offset + 1] + buffer[offset + 2] * 256

\* "!H": one big-endian unsigned 16-bit integer
UnpackH(buffer, offset) == buffer[offset + 1] * 256 + buffer[offset + 2]

\* "!%ds" % n: the n bytes at offset
UnpackS(buffer, offset, n) == SubSeq(buffer, offset + 1, offset + n)

(***************************************************************************)
(* decode_labels(message, offset).  frames[Len(frames)] is the running     *)
(* activation; each action below is one pass of its while loop.            *)
(***************************************************************************)
PointerTag == 192
OffsetMask == 16383

Top == frames[Len(frames)]

InLabels == result = None /\ frames # <<>>

IsPointer(length) == BitAnd(length, PointerTag) = PointerTag
\* the test of line 292 with the mask 0x80 in place of 0xC0
IsLiteral_top_bit_only(length) == BitAnd(length, 128) = 0

IsLiteral(length) == BitAnd(length, PointerTag) = 0

\* an exception leaves every activation and ends the entry call
Throw(e) ==
    /\ result' = Raise(e)
    /\ frames' = <<>>
    /\ pc' = "done"
    /\ UNCHANGED <<message, entry, args, qs, dns, rr, codec>>

\* labels + <value of the recursive call>: list + list concatenates, list +
\* anything else is a TypeError
ListAdd(labels, v) ==
    IF v.type = "list" THEN Return(labels \o v.items) ELSE Raise("TypeError")

\* the value of the return statements of decode_labels: a 2-tuple
Tuple2(a, b) == [type |-> "tuple", labels |-> a, offset |-> b]

\* line 284 with no byte left at offset
LengthTruncated ==
    /\ InLabels
    /\ ~CanUnpack(message, Top.offset, 1)
    /\ Throw("struct.error")

\* line 287 with fewer than two bytes left at offset
PointerTruncated ==
    /\ InLabels
    /\ CanUnpack(message, Top.offset, 1)
    /\ IsPointer(UnpackB(message, Top.offset))
    /\ ~CanUnpack(message, Top.offset, 2)
    /\ Throw("struct.error")

\* lines 286-290: the pointer is read, offset += 2, and decode_labels calls
\* itself at pointer & 0x3FFF
FollowPointer ==
    /\ InLabels
    /\ CanUnpack(message, Top.offset, 2)
    /\ IsPointer(UnpackB(message, Top.offset))
    /\ Len(frames) < RecursionLimit
    /\ LET pointer == UnpackH(message, Top.offset)
           caller == [Top EXCEPT !.offset = @ + 2]
           callee == [labels |-> <<>>, offset |-> BitAnd(pointer, OffsetMask)]
       IN  frames' = Append([frames EXCEPT ![Len(frames)] = caller], callee)
    /\ UNCHANGED <<message, entry, args, pc, result, qs, dns, rr, codec>>

\* line 290 when the interpreter refuses one more nested call
RecursionExceeded ==
    /\ InLabels
    /\ CanUnpack(message, Top.offset, 2)
    /\ IsPointer(UnpackB(message, Top.offset))
    /\ Len(frames) >= RecursionLimit
    /\ Throw("RuntimeError")

\* lines 292-293
UnknownEncoding ==
    /\ InLabels
    /\ CanUnpack(message, Top.offset, 1)
    /\ ~IsPointer(UnpackB(message, Top.offset))
    /\ ~IsLiteral(UnpackB(message, Top.offset))
    /\ Throw("StandardError")

\* lines 295, 300-301: a literal label is appended
ReadLabel ==
    /\ InLabels
    /\ CanUnpack(message, Top.offset, 1)
    /\ LET length == UnpackB(message, Top.offset)
       IN  /\ IsLiteral(length)
           /\ length # 0
           /\ CanUnpack(message, Top.offset + 1, length)
           /\ frames' = [frames EXCEPT ![Len(frames)] =
                  [labels |-> Append(Top.labels,
                                     UnpackS(message, Top.offset + 1, length)),
                   offset |-> Top.offset + 1 + length]]
    /\ UNCHANGED <<message, entry, args, pc, result, qs, dns, rr, codec>>

\* line 300 as the slice message[offset:offset + length]: a short label is
\* appended where unpack_from raises
LabelTruncated_as_slice ==
    /\ InLabels
    /\ CanUnpack(message, Top.offset, 1)
    /\ LET length == UnpackB(message, Top.offset)
       IN  /\ IsLiteral(length)
           /\ length # 0
           /\ ~CanUnpack(message, Top.offset + 1, length)
           /\ frames' = [frames EXCEPT ![Len(frames)] =
                  [labels |-> Append(Top.labels,
                                     Slice(message, Top.offset + 1,
                                           Top.offset + 1 + length)),
                   offset |-> Top.offset + 1 + length]]
    /\ UNCHANGED <<message, entry, args, pc, result, qs, dns, rr, codec>>

\* line 300 with fewer than length bytes left
LabelTruncated ==
    /\ InLabels
    /\ CanUnpack(message, Top.offset, 1)
    /\ LET length == UnpackB(message, Top.offset)
       IN  /\ IsLiteral(length)
           /\ length # 0
           /\ ~CanUnpack(message, Top.offset + 1, length)
    /\ Throw("struct.error")

AtEndOfName ==
    /\ InLabels
    /\ CanUnpack(message, Top.offset, 1)
    /\ UnpackB(message, Top.offset) = 0

\* the value of line 290 in each waiting activation, innermost first, once
\* the activation above it has returned v
RECURSIVE Unwind(_, _)
Unwind(waiting, v) ==
    IF waiting = <<>> THEN Return(v)
    ELSE LET caller == waiting[Len(waiting)]
             sum == ListAdd(caller.labels, v)
         IN  IF sum.kind = "raise" THEN sum
             ELSE Unwind(SubSeq(waiting, 1, Len(waiting) - 1),
                         Tuple2(sum.value, caller.offset))

\* lines 297-298 in the outermost activation, called from outside
ReturnName ==
    /\ AtEndOfName
    /\ Len(frames) = 1
    /\ entry = "decode_labels"
    /\ result' = Return(Tuple2(Top.labels, Top.offset + 1))
    /\ frames' = <<>>
    /\ pc' = "done"
    /\ UNCHANGED <<message, entry, args, qs, dns, rr, codec>>

\* lines 297-298 in a nested activation: the tuple goes back to line 290,
\* where the caller adds it to its list of labels
ReturnToPointer ==
    /\ AtEndOfName
    /\ Len(frames) > 1
    /\ LET out == Unwind(SubSeq(frames, 1, Len(frames) - 1),
                         Tuple2(Top.labels, Top.offset + 1))
       IN  IF out.kind = "raise"
           THEN Throw(out.exc)
           ELSE /\ frames' = <<>>
                /\ IF entry = "decode_labels"
                   THEN /\ result' = out
                        /\ pc' = "done"
                        /\ qs' = qs
                   ELSE /\ result' = result
                        /\ pc' = "q_fixed"
                        /\ qs' = [qs EXCEPT !.qname = out.value.labels,
                                            !.offset = out.value.offset]
                /\ UNCHANGED <<message, entry, args, dns, rr, codec>>

\* the passes of the while loop that do not return to an outside caller
LabelSteps ==
    \/ LengthTruncated
    \/ PointerTruncated
    \/ FollowPointer
    \/ RecursionExceeded
    \/ UnknownEncoding
    \/ ReadLabel
    \/ LabelTruncated
    \/ ReturnToPointer

\* lines 297-298 in the outermost activation, called by line 307
ReturnNameToQuestion ==
    /\ AtEndOfName
    /\ Len(frames) = 1
    /\ entry # "decode_labels"
    /\ qs' = [qs EXCEPT !.qname = Top.labels, !.offset = Top.offset + 1]
    /\ frames' = <<>>
    /\ pc' = "q_fixed"
    /\ UNCHANGED <<message, entry, args, result, dns, rr, codec>>

NextLabels == LabelSteps \/ ReturnName

(***************************************************************************)
(* decode_question_section(message, offset, qdcount).  qs.i counts the     *)
(* passes of "for _ in range(qdcount)" already made.                       *)
(***************************************************************************)
\* _DNS_QUERY_SECTION_FORMAT.size, struct.calcsize("!2H")
QuerySectionSize == 4

\* line 307: decode_labels is called at the current offset
QuestionName ==
    /\ pc = "q_loop"
    /\ result = None
    /\ qs.i < qs.qdcount
    /\ frames' = <<[labels |-> <<>>, offset |-> qs.offset]>>
    /\ pc' = "q_name"
    /\ UNCHANGED <<message, entry, args, result, qs, dns, rr, codec>>

\* lines 309-316: qtype and qclass are unpacked and the question appended
QuestionFixed ==
    /\ pc = "q_fixed"
    /\ CanUnpack(message, qs.offset, QuerySectionSize)
    /\ LET question == [domain_name |-> qs.qname,
                        query_type |-> UnpackH(message, qs.offset),
                        query_class |-> UnpackH(message, qs.offset + 2)]
       IN  qs' = [qs EXCEPT !.questions = Append(@, question),
                            !.offset = @ + QuerySectionSize,
                            !.i = @ + 1]
    /\ pc' = "q_loop"
    /\ UNCHANGED <<message, entry, args, frames, result, dns, rr, codec>>

\* line 309 with fewer than four bytes left
QuestionTruncated ==
    /\ pc = "q_fixed"
    /\ ~CanUnpack(message, qs.offset, QuerySectionSize)
    /\ Throw("struct.error")

\* the value of line 318: a 2-tuple
TupleQ(questions, offset) ==
    [type |-> "tuple", questions |-> questions, offset |-> offset]

\* line 318, called from outside
ReturnQuestions ==
    /\ pc = "q_loop"
    /\ result = None
    /\ qs.i = qs.qdcount
    /\ entry = "decode_question_section"
    /\ result' = Return(TupleQ(qs.questions, qs.offset))
    /\ pc' = "done"
    /\ UNCHANGED <<message, entry, args, frames, qs, dns, rr, codec>>

QuestionSteps ==
    \/ LabelSteps
    \/ ReturnNameToQuestion
    \/ QuestionName
    \/ QuestionFixed
    \/ QuestionTruncated

NextQuestions == QuestionSteps \/ ReturnQuestions

(***************************************************************************)
(* The bit-field extraction: byte string -> hex text -> binary text ->     *)
(* slice.                                                                  *)
(***************************************************************************)
HexDigits == <<"0", "1", "2", "3", "4", "5", "6", "7",
               "8", "9", "A", "B", "C", "D", "E", "F">>

IsHexDigit(c) == \E i \in 1..16 : HexDigits[i] = c

HexValue(c) == (CHOOSE i \in 1..16 : HexDigits[i] = c) - 1

RECURSIVE Join(_)
Join(parts) == IF parts = <<>> THEN <<>> ELSE Head(parts) \o Join(Tail(parts))

\* str.strip(): leading and trailing blanks removed
RECURSIVE StripLeft(_)
StripLeft(t) == IF t # <<>> /\ Head(t) = " " THEN StripLeft(Tail(t)) ELSE t

RECURSIVE StripRight(_)
StripRight(t) ==
    IF t # <<>> /\ t[Len(t)] = " " THEN StripRight(SubSeq(t, 1, Len(t) - 1))
    ELSE t

Strip(t) == StripRight(StripLeft(t))

\* "%02X " % n
FormatByte(n) == <<HexDigits[(n \div 16) + 1], HexDigits[(n % 16) + 1], " ">>

byte_to_hex(byteStr) ==
    Strip(Join([k \in 1..Len(byteStr) |-> FormatByte(byteStr[k])]))

\* byte_to_binary without reversed(): least significant bit first
byte_to_binary_unreversed(n) ==
    [k \in 1..8 |-> IF BitAnd(n, Pow2(k - 1)) # 0 THEN "1" ELSE "0"]

\* (n & (1 << i)) and 1, as text, for i = 7, 6, ..., 0
byte_to_binary(n) ==
    [k \in 1..8 |-> IF BitAnd(n, Pow2(8 - k)) # 0 THEN "1" ELSE "0"]

\* binascii.unhexlify(h): TypeError unless h is an even number of hex digits
unhexlify(h) ==
    IF Len(h) % 2 # 0 \/ \E k \in 1..Len(h) : ~IsHexDigit(h[k])
    THEN Raise("TypeError")
    ELSE Return([k \in 1..(Len(h) \div 2) |->
                    16 * HexValue(h[2 * k - 1]) + HexValue(h[2 * k])])

hex_to_binary(h) ==
    LET raw == unhexlify(h)
    IN  IF raw.kind = "raise" THEN raw
        ELSE Return(Join([k \in 1..Len(raw.value) |->
                             byte_to_binary(raw.value[k])]))

\* the unsigned integer a text of binary digits denotes
RECURSIVE BinValue(_)
BinValue(t) ==
    IF t = <<>> THEN 0
    ELSE 2 * BinValue(SubSeq(t, 1, Len(t) - 1))
         + (IF t[Len(t)] = "1" THEN 1 ELSE 0)

\* line 136 / 146
ByteToHex ==
    /\ pc = "byte_to_hex"
    /\ codec' = [codec EXCEPT !.byte = byte_to_hex(codec.byte)]
    /\ pc' = "hex_to_binary"
    /\ UNCHANGED <<message, entry, args, frames, result, qs, dns, rr>>

\* line 137 / 147
HexToBinary ==
    /\ pc = "hex_to_binary"
    /\ LET out == hex_to_binary(codec.byte)
       IN  IF out.kind = "raise"
           THEN /\ result' = out
                /\ pc' = "done"
                /\ codec' = codec
           ELSE /\ codec' = [codec EXCEPT !.data = out.value]
                /\ pc' = "slice"
                /\ result' = result
    /\ UNCHANGED <<message, entry, args, frames, qs, dns, rr>>

\* one of the slices data[start:end] of lines 138-142 / 148-152
SliceField ==
    /\ pc = "slice"
    /\ result' = Return(Slice(codec.data, args.start, args.end))
    /\ pc' = "done"
    /\ UNCHANGED <<message, entry, args, frames, qs, dns, rr, codec>>

NextBits == ByteToHex \/ HexToBinary \/ SliceField

(***************************************************************************)
(* The header of unpack_dns.  data starts with the 8-byte UDP header, so   *)
(* the DNS header is data[8:20].                                           *)
(***************************************************************************)
\* lines 135-143
unpack_dns_upper_codes(byte) ==
    LET data == hex_to_binary(byte_to_hex(byte)).value
    IN  [qr |-> Slice(data, 0, 1), opcode |-> Slice(data, 1, 5),
         aa |-> Slice(data, 5, 6), tc |-> Slice(data, 6, 7),
         rd |-> Slice(data, 7, 8)]

\* lines 145-153
unpack_dns_lower_codes(byte) ==
    LET data == hex_to_binary(byte_to_hex(byte)).value
    IN  [ra |-> Slice(data, 0, 1), z |-> Slice(data, 1, 2),
         ad |-> Slice(data, 2, 3), cd |-> Slice(data, 3, 4),
         rc |-> Slice(data, 4, 8)]

\* struct.unpack(fmt, s) raises struct.error unless len(s) is the size of fmt
CanUnpackAll(data, spans) ==
    \A k \in 1..Len(spans) :
        Len(Slice(data, spans[k][1], spans[k][2])) = spans[k][2] - spans[k][1]

\* the slices lines 156-162 unpack, in order
HeaderSpans ==
    <<<<8, 10>>, <<10, 11>>, <<11, 12>>, <<12, 14>>, <<14, 16>>, <<16, 18>>,
      <<18, 20>>>>

\* lines 155-168
upack_dns_codes(data) ==
    IF ~CanUnpackAll(data, HeaderSpans) THEN Raise("struct.error")
    ELSE Return([identification |-> UnpackH(data, 8),
                 total_questions |-> UnpackH(data, 12),
                 total_answers_rr |-> UnpackH(data, 14),
                 total_authority_rr |-> UnpackH(data, 16),
                 total_additional_rr |-> UnpackH(data, 18)])

\* offset of the question section in data, line 340
QuestionStart == 20

\* lines 337-340: the flag bytes and the counts are read and
\* decode_question_section is called
DnsHeader ==
    /\ pc = "dns_header"
    /\ LET codes == upack_dns_codes(message)
       IN  /\ codes.kind = "return"
           /\ dns' = [lower_dict |-> unpack_dns_lower_codes(Slice(message, 10, 11)),
                      uper_dict |-> unpack_dns_upper_codes(Slice(message, 11, 12)),
                      dns_data |-> codes.value,
                      dns_questions |-> <<>>,
                      question_offset |-> 0]
           /\ qs' = [qdcount |-> codes.value.total_questions,
                     offset |-> QuestionStart, i |-> 0,
                     questions |-> <<>>, qname |-> <<>>]
    /\ pc' = "q_loop"
    /\ UNCHANGED <<message, entry, args, frames, result, rr, codec>>

\* line 339 on a buffer that ends inside the header
DnsHeaderTruncated ==
    /\ pc = "dns_header"
    /\ upack_dns_codes(message).kind = "raise"
    /\ Throw(upack_dns_codes(message).exc)

\* line 318 returning to line 340
ReturnQuestionsToDns ==
    /\ pc = "q_loop"
    /\ result = None
    /\ qs.i = qs.qdcount
    /\ entry = "unpack_dns"
    /\ dns' = [dns EXCEPT !.dns_questions = qs.questions,
                          !.question_offset = qs.offset]
    /\ pc' = "dns_answers"
    /\ UNCHANGED <<message, entry, args, frames, result, qs, rr, codec>>

\* lines 341-342 and 205-206: _unpack_dns_rr is called for the answers
DnsAnswers ==
    /\ pc = "dns_answers"
    /\ dns.dns_data.total_answers_rr # 0
    /\ rr' = [offset |-> dns.question_offset,
              arcount |-> dns.dns_data.total_answers_rr,
              i |-> 0, answers |-> <<>>, offset_pointer |-> 0,
              name |-> [labels |-> <<>>, offset |-> 0],
              printed |-> <<>>]
    /\ pc' = "rr_loop"
    /\ UNCHANGED <<message, entry, args, frames, result, qs, dns, codec>>

\* line 341 with total_answers_rr = 0
DnsNoAnswers ==
    /\ pc = "dns_answers"
    /\ dns.dns_data.total_answers_rr = 0
    /\ pc' = "dns_build"
    /\ UNCHANGED <<message, entry, args, frames, result, qs, dns, rr, codec>>

\* lines 344-347: the returned dict is the two flag dicts and the counts
DnsReturn ==
    /\ pc = "dns_build"
    /\ result' = Return([ra |-> dns.lower_dict.ra, z |-> dns.lower_dict.z,
                         ad |-> dns.lower_dict.ad, cd |-> dns.lower_dict.cd,
                         rc |-> dns.lower_dict.rc,
                         qr |-> dns.uper_dict.qr,
                         opcode |-> dns.uper_dict.opcode,
                         aa |-> dns.uper_dict.aa, tc |-> dns.uper_dict.tc,
                         rd |-> dns.uper_dict.rd,
                         identification |-> dns.dns_data.identification,
                         total_questions |-> dns.dns_data.total_questions,
                         total_answers_rr |-> dns.dns_data.total_answers_rr,
                         total_authority_rr |-> dns.dns_data.total_authority_rr,
                         total_additional_rr |->
                             dns.dns_data.total_additional_rr])
    /\ pc' = "done"
    /\ UNCHANGED <<message, entry, args, frames, qs, dns, rr, codec>>

(***************************************************************************)
(* _unpack_dns_rr(data, offset, arcount) and the helpers it calls.  rr.i   *)
(* counts the passes of "for _ in range(arcount)" already made; printed is *)
(* what the print statements wrote.                                        *)
(***************************************************************************)
\* Python 2's == between a str and an int: never equal
StrEqualsInt(text, n) == FALSE

\* lines 272-277
check_dns_rr_pointer(byte) ==
    LET data == hex_to_binary(byte_to_hex(byte)).value
    IN  StrEqualsInt(Slice(data, 0, 1), 1) /\ StrEqualsInt(Slice(data, 1, 2), 1)

\* lines 247-251: the text _decode_rr_pointer prints, or the exception of
\* unhexlify
decode_rr_pointer(data, offset) ==
    hex_to_binary(byte_to_hex(Slice(data, offset, offset + 2)))

\* lines 207-214, one pass: rr.offset is never assigned
RrPass ==
    /\ pc = "rr_loop"
    /\ rr.i < rr.arcount
    /\ IF check_dns_rr_pointer(Slice(message, rr.offset, rr.offset + 1))
       THEN LET octet == decode_rr_pointer(message, rr.offset)
            IN  IF octet.kind = "raise" THEN Throw(octet.exc)
                ELSE /\ rr' = [rr EXCEPT !.printed = Append(@, octet.value),
                                         !.i = @ + 1]
                     /\ UNCHANGED <<message, entry, args, pc, frames, result,
                                    qs, dns, codec>>
       ELSE /\ rr' = [rr EXCEPT !.name = [labels |-> <<>>,
                                          offset |-> rr.offset]]
            /\ pc' = "rr_name"
            /\ UNCHANGED <<message, entry, args, frames, result, qs, dns,
                           codec>>

\* line 223 with no byte left
RrLengthTruncated ==
    /\ pc = "rr_name"
    /\ ~CanUnpack(message, rr.name.offset, 1)
    /\ Throw("struct.error")

\* lines 223-228: any non-zero length octet is taken as a label length
RrLabel ==
    /\ pc = "rr_name"
    /\ CanUnpack(message, rr.name.offset, 1)
    /\ LET length == UnpackB(message, rr.name.offset)
       IN  /\ length # 0
           /\ CanUnpack(message, rr.name.offset + 1, length)
           /\ rr' = [rr EXCEPT !.name =
                  [labels |-> Append(rr.name.labels,
                                     UnpackS(message, rr.name.offset + 1, length)),
                   offset |-> rr.name.offset + 1 + length]]
    /\ UNCHANGED <<message, entry, args, pc, frames, result, qs, dns, codec>>

\* line 227 with fewer than length bytes left
RrLabelTruncated ==
    /\ pc = "rr_name"
    /\ CanUnpack(message, rr.name.offset, 1)
    /\ LET length == UnpackB(message, rr.name.offset)
       IN  /\ length # 0
           /\ ~CanUnpack(message, rr.name.offset + 1, length)
    /\ Throw("struct.error")

\* lines 225-226 and 214: the name and its end are printed
RrNamePrinted ==
    /\ pc = "rr_name"
    /\ CanUnpack(message, rr.name.offset, 1)
    /\ UnpackB(message, rr.name.offset) = 0
    /\ rr' = [rr EXCEPT !.printed =
                  Append(@, Tuple2(rr.name.labels, rr.name.offset + 1)),
                        !.i = @ + 1]
    /\ pc' = "rr_loop"
    /\ UNCHANGED <<message, entry, args, frames, result, qs, dns, codec>>

\* the loop of line 207 is over: _unpack_dns_rr returns None
RrReturn ==
    /\ pc = "rr_loop"
    /\ rr.i = rr.arcount
    /\ pc' = "dns_build"
    /\ UNCHANGED <<message, entry, args, frames, result, qs, dns, rr, codec>>

NextDns ==
    \/ QuestionSteps
    \/ DnsHeader
    \/ DnsHeaderTruncated
    \/ ReturnQuestionsToDns
    \/ DnsAnswers
    \/ DnsNoAnswers
    \/ DnsReturn
    \/ RrPass
    \/ RrLengthTruncated
    \/ RrLabel
    \/ RrLabelTruncated
    \/ RrNamePrinted
    \/ RrReturn

(***************************************************************************)
(* Inputs of decode_labels: every buffer of at most MaxLen bytes over      *)
(* BufferBytes and every start offset inside it or at its end.             *)
(***************************************************************************)
Buffers == UNION {[1..n -> BufferBytes] : n \in 0..MaxLen}

Idle == [kind |-> "idle"]

InitLabels ==
    /\ message \in Buffers
    /\ entry = "decode_labels"
    /\ pc = "decode_labels"
    /\ \E o \in 0..Len(message) :
          /\ args = [offset |-> o]
          /\ frames = <<[labels |-> <<>>, offset |-> o]>>
    /\ result = None
    /\ qs = Idle
    /\ dns = Idle
    /\ rr = Idle
    /\ codec = Idle

SpecLabels == InitLabels /\ [][NextLabels]_vars

(***************************************************************************)
(* Inputs of the bit-field extraction: every byte and every bit range.     *)
(***************************************************************************)
InitBits ==
    /\ \E b \in 0..255 : message = <<b>>
    /\ entry = "unpack_codes"
    /\ \E s \in 0..7 : \E e \in (s + 1)..8 : args = [start |-> s, end |-> e]
    /\ pc = "byte_to_hex"
    /\ frames = <<>>
    /\ result = None
    /\ qs = Idle
    /\ dns = Idle
    /\ rr = Idle
    /\ codec = [byte |-> message, data |-> <<>>]

SpecBits == InitBits /\ [][NextBits]_vars

(***************************************************************************)
(* Inputs of decode_question_section: a pad, then at most MaxQuestions     *)
(* encoded questions, the whole cut to each of its prefixes; the offset    *)
(* after the pad; a count of up to one more than MaxQuestions.             *)
(***************************************************************************)
MaxQuestions == 2

\* encoded names: the root, "a", "ab.c", a pointer to offset 0, a reserved tag
QuestionNames ==
    {<<0>>, <<1, 97, 0>>, <<2, 97, 98, 1, 99, 0>>, <<192, 0>>, <<64>>}

\* qtype, qclass: (1, 1) and (258, 255)
QuestionFields == {<<0, 1, 0, 1>>, <<1, 2, 0, 255>>}

RECURSIVE Sections(_)
Sections(n) ==
    IF n = 0 THEN {<<>>}
    ELSE {<<>>} \cup {name \o fields \o rest :
                        name \in QuestionNames, fields \in QuestionFields,
                        rest \in Sections(n - 1)}

Pads == {<<>>, <<0>>}

Prefixes(s) == {SubSeq(s, 1, n) : n \in 0..Len(s)}

InitQuestions ==
    /\ \E pad \in Pads : \E body \in Sections(MaxQuestions) :
          /\ message \in Prefixes(pad \o body)
          /\ \E c \in 0..(MaxQuestions + 1) :
                args = [offset |-> Len(pad), qdcount |-> c]
    /\ entry = "decode_question_section"
    /\ pc = "q_loop"
    /\ frames = <<>>
    /\ result = None
    /\ qs = [qdcount |-> args.qdcount, offset |-> args.offset, i |-> 0,
             questions |-> <<>>, qname |-> <<>>]
    /\ dns = Idle
    /\ rr = Idle
    /\ codec = Idle

SpecQuestions == InitQuestions /\ [][NextQuestions]_vars

(***************************************************************************)
(* Inputs of unpack_dns: a UDP header, a DNS header with chosen flag bytes *)
(* and counts, at most one question and at most MaxAnswers records, the    *)
(* whole cut to each of its prefixes.                                      *)
(***************************************************************************)
MaxAnswers == 2

U16(n) == <<n \div 256, n % 256>>

UdpHeader == <<0, 53, 192, 0, 0, 40, 0, 0>>

DnsId == <<18, 52>>

\* 0x00, 0x81 and 0x74
FlagBytes == {0, 129, 116}

\* no question, the question "a" A IN, and questions whose name is a pointer
\* to itself, a pointer to the zero octet at offset 7, a reserved tag
DnsQuestions ==
    {<<>>, <<1, 97, 0, 0, 1, 0, 1>>, <<192, 20, 0, 1, 0, 1>>,
     <<192, 7, 0, 1, 0, 1>>, <<128, 0, 1, 0, 1>>}

\* type A, class IN, ttl 60, rdlength 4, 192.168.0.1
RecordTail == <<0, 1, 0, 1, 0, 0, 0, 60, 0, 4, 192, 168, 0, 1>>

\* a record named "b" and one whose name is a pointer to offset 20
DnsRecords == {<<1, 98, 0>> \o RecordTail, <<192, 20>> \o RecordTail}

RECURSIVE RecordSections(_)
RecordSections(n) ==
    IF n = 0 THEN {<<>>}
    ELSE {<<>>} \cup {rec \o rest :
                        rec \in DnsRecords, rest \in RecordSections(n - 1)}

InitDns ==
    /\ \E b2 \in FlagBytes : \E b3 \in FlagBytes :
       \E qd \in 0..1 : \E an \in 0..(MaxAnswers + 1) : \E ns \in 0..1 :
       \E question \in DnsQuestions :
       \E records \in RecordSections(MaxAnswers) :
          message \in Prefixes(UdpHeader \o DnsId \o <<b2, b3>> \o U16(qd)
                               \o U16(an) \o U16(ns) \o U16(0)
                               \o question \o records)
    /\ entry = "unpack_dns"
    /\ args = Idle
    /\ pc = "dns_header"
    /\ frames = <<>>
    /\ result = None
    /\ qs = Idle
    /\ dns = Idle
    /\ rr = Idle
    /\ codec = Idle

SpecDns == InitDns /\ [][NextDns]_vars

(***************************************************************************)
(* The name decoder the specification describes (section 4.3), used to     *)
(* state what a buffer is expected to decode to: a pointer must target an  *)
(* offset below its own, so the recursion ends.                            *)
(***************************************************************************)
RefFail(kind) == [kind |-> kind, labels |-> <<>>, next |-> 0]

RECURSIVE RefDecode(_, _)
RefDecode(m, o) ==
    IF o + 1 > Len(m) THEN RefFail("Truncated")
    ELSE LET L == m[o + 1]
             tag == L \div 64
         IN  IF L = 0 THEN [kind |-> "name", labels |-> <<>>, next |-> o + 1]
             ELSE IF tag = 3
             THEN IF o + 2 > Len(m) THEN RefFail("Truncated")
                  ELSE LET t == (L % 64) * 256 + m[o + 2]
                       IN  IF t >= o THEN RefFail("CompressionLoop")
                           ELSE LET r == RefDecode(m, t)
                                IN  IF r.kind = "name"
                                    THEN [r EXCEPT !.next = o + 2]
                                    ELSE r
             ELSE IF tag # 0 THEN RefFail("InvalidLabelEncoding")
             ELSE IF o + 1 + L > Len(m) THEN RefFail("Truncated")
             ELSE LET r == RefDecode(m, o + 1 + L)
                  IN  IF r.kind = "name"
                      THEN [r EXCEPT !.labels =
                               <<SubSeq(m, o + 2, o + 1 + L)>> \o @]
                      ELSE r

\* the offset of the pointer that ends the literal labels starting at o, or
\* -1 when they end otherwise
RECURSIVE RefPointerAt(_, _)
RefPointerAt(m, o) ==
    IF o + 1 > Len(m) THEN -1
    ELSE LET L == m[o + 1]
         IN  IF L \div 64 = 3 THEN o
             ELSE IF L = 0 \/ L \div 64 # 0 \/ o + 1 + L > Len(m) THEN -1
             ELSE RefPointerAt(m, o + 1 + L)

\* the bytes a name of these labels takes uncompressed
RECURSIVE EncodedNameLength(_)
EncodedNameLength(labels) ==
    IF labels = <<>> THEN 1
    ELSE 1 + Len(Head(labels)) + EncodedNameLength(Tail(labels))

\* count uncompressed questions at o, or "Malformed"
RECURSIVE RefQuestions(_, _, _)
RefQuestions(m, o, count) ==
    IF count = 0 THEN [kind |-> "questions", questions |-> <<>>, size |-> 0]
    ELSE LET name == RefDecode(m, o)
         IN  IF \/ name.kind # "name"
                \/ RefPointerAt(m, o) # -1
                \/ name.next + 4 > Len(m)
             THEN [kind |-> "Malformed", questions |-> <<>>, size |-> 0]
             ELSE LET rest == RefQuestions(m, name.next + 4, count - 1)
                      q == [domain_name |-> name.labels,
                            query_type |-> 256 * m[name.next + 1]
                                           + m[name.next + 2],
                            query_class |-> 256 * m[name.next + 3]
                                            + m[name.next + 4]]
                  IN  IF rest.kind # "questions" THEN rest
                      ELSE [kind |-> "questions",
                            questions |-> <<q>> \o rest.questions,
                            size |-> EncodedNameLength(name.labels) + 4
                                     + rest.size]

(***************************************************************************)
(* C1.  Decoding a name ends after a number of steps bounded by the        *)
(* buffer: every nested activation of decode_labels was entered through a  *)
(* 2-byte pointer, so a decode that visits no pointer twice nests at most  *)
(* Len(message) \div 2 deep, and it never ends by exhausting the           *)
(* interpreter's recursion limit.                                          *)
(***************************************************************************)
C1_DecodingBounded ==
    entry = "decode_labels" =>
        /\ Len(frames) <= Len(message) \div 2 + 1
        /\ result # Raise("RuntimeError")

(***************************************************************************)
(* C2.  A pointer at offset p whose 14-bit target is >= p makes the decode *)
(* fail at that step: the pointer is not followed and no name is returned. *)
(***************************************************************************)
AtForwardPointer ==
    /\ InLabels
    /\ Top.offset + 2 <= Len(message)
    /\ message[Top.offset + 1] \div 64 = 3
    /\ (message[Top.offset + 1] % 64) * 256 + message[Top.offset + 2]
           >= Top.offset

C2_ForwardPointerFails ==
    [][AtForwardPointer => result'.kind = "raise"]_vars

(***************************************************************************)
(* C3.  A name made of literal labels and then a pointer at p to an        *)
(* earlier well-formed name decodes to the literal labels followed by the  *)
(* labels of the target, with next_offset = p + 2.                         *)
(***************************************************************************)
C3_PointerNameDecodes ==
    (/\ entry = "decode_labels"
     /\ pc = "done"
     /\ RefPointerAt(message, args.offset) >= 0
     /\ RefDecode(message, args.offset).kind = "name")
    => result = Return(Tuple2(RefDecode(message, args.offset).labels,
                              RefPointerAt(message, args.offset) + 2))

(***************************************************************************)
(* C4.  Whenever the running activation of decode_labels is at a length    *)
(* octet whose top two bits are 01 or 10, the step ends the decode with    *)
(* the invalid-encoding error, StandardError("unknown label encoding").    *)
(***************************************************************************)
AtReservedTag ==
    /\ InLabels
    /\ Top.offset + 1 <= Len(message)
    /\ message[Top.offset + 1] \div 64 \in {1, 2}

C4_ReservedTagFails ==
    [][AtReservedTag => result' = Raise("StandardError")]_vars

\* the reserved tag 10 is met at the target of a pointer that follows a label
C4_Witness ==
    /\ message = <<128, 1, 2, 192, 0>>
    /\ args.offset = 1
    /\ result = Raise("StandardError")

(***************************************************************************)
(* C5.  A read that would go past the end of the buffer (the length octet, *)
(* the bytes of a label, the second octet of a pointer, the four bytes of  *)
(* qtype and qclass) ends decoding.  As amended: it ends with the          *)
(* exception struct.error raised to the caller, no label and no question   *)
(* being added.  As claimed: it ends with a Truncated error returned as a  *)
(* value.                                                                  *)
(***************************************************************************)
NameReadPastEnd ==
    /\ InLabels
    /\ \/ Top.offset + 1 > Len(message)
       \/ /\ Top.offset + 1 <= Len(message)
          /\ LET L == message[Top.offset + 1]
             IN  \/ L \div 64 = 3 /\ Top.offset + 2 > Len(message)
                 \/ L \div 64 = 0 /\ L # 0 /\ Top.offset + 1 + L > Len(message)

FixedReadPastEnd ==
    /\ pc = "q_fixed"
    /\ qs.offset + 4 > Len(message)

Bits(b, start, end) == (b \div Pow2(8 - end)) % Pow2(end - start)

\* the DNS header is data[8:20]: its bytes 2 and 3 are data[10] and data[11]
HeaderByte2 == message[11]
HeaderByte3 == message[12]

C6_FlagsFromHeaderBytes ==
    (entry = "unpack_dns" /\ pc = "done" /\ result.kind = "return") =>
        LET d == result.value
        IN  /\ BinValue(d.qr) = Bits(HeaderByte2, 0, 1)
            /\ BinValue(d.opcode) = Bits(HeaderByte2, 1, 5)
            /\ BinValue(d.aa) = Bits(HeaderByte2, 5, 6)
            /\ BinValue(d.tc) = Bits(HeaderByte2, 6, 7)
            /\ BinValue(d.rd) = Bits(HeaderByte2, 7, 8)
            /\ BinValue(d.ra) = Bits(HeaderByte3, 0, 1)
            /\ BinValue(d.z) = Bits(HeaderByte3, 1, 2)
            /\ BinValue(d.ad) = Bits(HeaderByte3, 2, 3)
            /\ BinValue(d.cd) = Bits(HeaderByte3, 3, 4)
            /\ BinValue(d.rc) = Bits(HeaderByte3, 4, 8)

(***************************************************************************)
(* C7.  On a buffer holding qdcount well-formed uncompressed questions at  *)
(* offset, decode_question_section returns exactly those questions in wire *)
(* order, qtype and qclass read big-endian after each name, and            *)
(* next_offset = offset + the sum of (encoded name length + 4).            *)
(***************************************************************************)
C7_QuestionsDecoded ==
    (/\ entry = "decode_question_section"
     /\ pc = "done"
     /\ RefQuestions(message, args.offset, args.qdcount).kind = "questions")
    => LET ref == RefQuestions(message, args.offset, args.qdcount)
       IN  /\ result = Return(TupleQ(ref.questions, args.offset + ref.size))
           /\ Len(result.value.questions) = args.qdcount

\* two questions, "a" with (qtype, qclass) = (258, 255) and then "ab.c"
C7_Witness ==
    /\ entry = "decode_question_section"
    /\ args = [offset |-> 1, qdcount |-> 2]
    /\ result.kind = "return"
    /\ result.value.offset = 18
    /\ result.value.questions =
           <<[domain_name |-> <<<<97>>>>, query_type |-> 258,
              query_class |-> 255],
             [domain_name |-> <<<<97, 98>>, <<99>>>>, query_type |-> 1,
              query_class |-> 1]>>

(***************************************************************************)
(* C8.  unpack_dns decodes the answers, authorities and additionals after  *)
(* the questions, each entry starting at the next_offset of the entry      *)
(* before it, and what it returns accounts for every declared entry.       *)
(***************************************************************************)
RecordsDecoded == IF rr = Idle THEN 0 ELSE rr.i

C8_SectionsThreaded ==
    entry = "unpack_dns" =>
        /\ (pc = "rr_loop" /\ rr.i > 0) =>
               rr.offset = rr.printed[Len(rr.printed)].offset
        /\ (pc = "done" /\ result.kind = "return") =>
               RecordsDecoded = result.value.total_answers_rr
                                + result.value.total_authority_rr
                                + result.value.total_additional_rr

(***************************************************************************)
(* C9.  When the header declares more answer records than the buffer holds *)
(* after a well-formed question section, unpack_dns fails instead of       *)
(* returning a message.                                                    *)
(***************************************************************************)
\* the end of the record at o (name, 10 fixed bytes, RDLENGTH bytes of
\* RDATA), or -1 when the buffer ends before it
RefRecordEnd(m, o) ==
    LET name == RefDecode(m, o)
    IN  IF name.kind # "name" \/ name.next + 10 > Len(m) THEN -1
        ELSE LET rdlength == 256 * m[name.next + 9] + m[name.next + 10]
             IN  IF name.next + 10 + rdlength > Len(m) THEN -1
                 ELSE name.next + 10 + rdlength

\* how many complete records, at most count, the buffer holds from o on
RECURSIVE RefRecordsHeld(_, _, _)
RefRecordsHeld(m, o, count) ==
    IF count = 0 \/ RefRecordEnd(m, o) = -1 THEN 0
    ELSE 1 + RefRecordsHeld(m, RefRecordEnd(m, o), count - 1)

\* the end of the question section of a whole header, or -1
RefQuestionsEnd(m) ==
    IF Len(m) < 20 THEN -1
    ELSE LET ref == RefQuestions(m, 20, 256 * m[13] + m[14])
         IN  IF ref.kind = "questions" THEN 20 + ref.size ELSE -1

C9_MissingAnswersFail ==
    (/\ entry = "unpack_dns"
     /\ pc = "done"
     /\ RefQuestionsEnd(message) # -1
     /\ RefRecordsHeld(message, RefQuestionsEnd(message),
                       256 * message[15] + message[16])
            < 256 * message[15] + message[16])
    => result.kind = "raise"

(***************************************************************************)
(* C10.  For every byte b and bit range 0 <= start < end <= 8, the field   *)
(* got by byte -> hex text -> binary text -> slice [start:end] denotes     *)
(* (b >> (8 - end)) & (2^(end - start) - 1), and the binary text has 8     *)
(* characters.                                                             *)
(***************************************************************************)
C10_SliceIsShiftMask ==
    (entry = "unpack_codes" /\ pc = "done") =>
        /\ result.kind = "return"
        /\ Len(codec.data) = 8
        /\ Len(result.value) = args.end - args.start
        /\ BinValue(result.value)
               = BitAnd(message[1] \div Pow2(8 - args.end),
                        Pow2(args.end - args.start) - 1)

\* OPCODE of 0x74: bits 1-4 are 1110
C10_Witness ==
    /\ entry = "unpack_codes"
    /\ pc = "done"
    /\ message = <<116>>
    /\ args = [start |-> 1, end |-> 5]
    /\ result = Return(<<"1", "1", "1", "0">>)

====
